---- MODULE Spec2Model ----
(***************************************************************************)
(* A model of the minesweeper game of src/main.rs: the board generator     *)
(* (generate_board), the reveal cascade (reveal_board), the cursor-to-tile *)
(* mapping (pos_to_tile_coords), the click handler (detect_presses) and    *)
(* the Playing/GameOver state of the application.                          *)
(*                                                                         *)
(* Spec is the application: the generation of the board, then the frames.  *)
(* NoUnflagSpec is Spec for a player who removes no flag.  GenerateSpec    *)
(* is generate_board alone.  CascadeSpec runs one call of reveal_board     *)
(* step by step, AnyOrderSpec the same with the neighbours of a tile       *)
(* visited in any order.  GenerateLive and CascadeLive add fairness.       *)
(*                                                                         *)
(* A tile coordinate (Coord) is a pair <<x, y>>.  An Option<Coord> is a    *)
(* sequence of length 0 (None) or 1 (Some(c)).                             *)
(***************************************************************************)
EXTENDS Integers, Sequences, FiniteSets

\* ------------------------------------------------------------------ bounds
\* The program fixes BOARD_DIM = (20, 15) and MINE_NUM = 40.  The model draws
\* the board dimensions from 1..MaxWidth x 1..MaxHeight and the requested
\* number of mines from 0..MaxMineNum, and lets the player hold at most
\* MaxFlags flags at a time.
MaxWidth == 3
MaxHeight == 3
MaxMineNum == 2
MaxFlags == 1
\* The specifications that run one call of reveal_board step by step draw
\* the board dimensions from 1..CascadeMaxWidth x 1..CascadeMaxHeight.
CascadeMaxWidth == 3
CascadeMaxHeight == 2

\* const TILE_SIZE: f32 = 32.
TILE_SIZE == 32

VARIABLES
    BOARD_DIM,   \* const BOARD_DIM: (i32, i32), fixed at start
    MINE_NUM,    \* const MINE_NUM: i32, fixed at start
    mines,       \* BoardState.mines (while generating: the local `mines`)
    mines_left,  \* the local `mines_left` of generate_board
    flags,       \* BoardState.flags
    revealed,    \* BoardState.revealed
    nums,        \* BoardState.nums: a function from the non-mine tiles
    state,       \* State<GameState>: "Playing" or "GameOver"
    pc,          \* "generate_board": inside the sampling loop of generate_board
                 \* "running": setup is done, the app runs its frames
                 \* "panicked": state.set(..).unwrap() failed
                 \* "reveal_board": inside a call of reveal_board that is
                 \*     run step by step
                 \* "returned": that call has returned
    \* A call of reveal_board that is run step by step (the frames of Spec
    \* run their calls in one step and leave these as they are):
    call_pos,    \* the argument pos of the outermost call: None before it
    call_stack,  \* the activations inside their loop, innermost first
    call_res,    \* the bool the outermost call returned
    call_before, \* BoardState.revealed when the call was made
    call_expansions  \* how many activations have started their loop

call_vars == <<call_pos, call_stack, call_res, call_before, call_expansions>>

vars == <<BOARD_DIM, MINE_NUM, mines, mines_left, flags, revealed, nums, state,
          pc, call_vars>>

\* ----------------------------------------------------------------- helpers
Min(a, b) == IF a <= b THEN a ELSE b

\* `as i32` of a quotient of f32 values: the quotient rounded towards zero.
TruncDiv(a, b) == IF a >= 0 THEN a \div b ELSE -((-a) \div b)

None == <<>>
Some(c) == <<c>>

\* (0..BOARD_DIM.0).cartesian_product(0..BOARD_DIM.1)
Tiles == (0 .. BOARD_DIM[1] - 1) \X (0 .. BOARD_DIM[2] - 1)

in_bounds(c) ==
    c[1] >= 0 /\ c[2] >= 0 /\ c[1] < BOARD_DIM[1] /\ c[2] < BOARD_DIM[2]

\* (-1..2).cartesian_product(-1..2), in iteration order: the first component
\* is the outer loop.
Offsets == [i \in 1 .. 9 |-> <<((i - 1) \div 3) - 1, ((i - 1) % 3) - 1>>]

\* --------------------------------------------------------- generate_board
\* mines_quota without the clamp to the number of tiles.
mines_quota_unclamped == MINE_NUM

\* MINE_NUM.min(BOARD_DIM.0 * BOARD_DIM.1)
mines_quota == Min(MINE_NUM, BOARD_DIM[1] * BOARD_DIM[2])

\* count_mines with the diagonal neighbours left out.
count_mines_orthogonal(ms, p) ==
    Cardinality({i \in 1 .. 9 :
        LET q == <<Offsets[i][1] + p[1], Offsets[i][2] + p[2]>>
        IN  in_bounds(q) /\ q \in ms
                /\ (Offsets[i][1] = 0 \/ Offsets[i][2] = 0)})

\* The closure of lines 82-87: the number of mines among the in-bounds tiles
\* p + (x, y), x and y in -1..1, for the mine set ms.
count_mines(ms, p) ==
    Cardinality({i \in 1 .. 9 :
        LET q == <<Offsets[i][1] + p[1], Offsets[i][2] + p[2]>>
        IN  in_bounds(q) /\ q \in ms})

\* compute_nums without the filter that leaves the mines out.
compute_nums_on_every_tile(ms) == [p \in Tiles |-> count_mines(ms, p)]

\* The map collected at lines 78-90.
compute_nums(ms) == [p \in Tiles \ ms |-> count_mines(ms, p)]

\* sample_mine counting a sample that was already a mine.
sample_mine_counts_duplicates(ms, left, coord) ==
    <<ms \cup {coord}, left - 1>>

\* The step of the `while mines_left > 0` loop of lines 70-76 that samples
\* coord: the new values <<mines, mines_left>>.
sample_mine(ms, left, coord) ==
    IF coord \notin ms THEN <<ms \cup {coord}, left - 1>> ELSE <<ms, left>>

\* ----------------------------------------------------------- reveal_board
\* The resource BoardState as one value.
BoardState ==
    [mines |-> mines, flags |-> flags, revealed |-> revealed, nums |-> nums]

\* newly_revealed without the test of flags.
newly_revealed_ignoring_flags(board, pos) == pos \notin board.revealed

\* newly_revealed without the test that the insertion is new.
newly_revealed_ignoring_revealed(board, pos) == pos \notin board.flags

\* Line 105: !board.flags.contains(&pos) && board.revealed.insert(pos).
\* The insertion itself is made by reveal_enter.
newly_revealed(board, pos) ==
    pos \notin board.flags /\ pos \notin board.revealed

\* is_zero_tile matching Some(_): any tile that has a count.
is_zero_tile_any_count(board, pos) == pos \in DOMAIN board.nums

\* Line 110: let Some(0) = board.nums.get(&pos)
is_zero_tile(board, pos) ==
    pos \in DOMAIN board.nums /\ board.nums[pos] = 0

\* to_check with the ranges written -1..1, which leave out the offset 1.
to_check_short_ranges(offs, pos) ==
    LET around == SelectSeq(offs, LAMBDA p : /\ p # <<0, 0>>
                                             /\ p[1] < 1 /\ p[2] < 1)
        moved  == [i \in 1 .. Len(around) |->
                      <<around[i][1] + pos[1], around[i][2] + pos[2]>>]
    IN  SelectSeq(moved, in_bounds)

\* to_check without the diagonal neighbours.
to_check_orthogonal(offs, pos) ==
    LET around == SelectSeq(offs, LAMBDA p : (p[1] = 0) # (p[2] = 0))
        moved  == [i \in 1 .. Len(around) |->
                      <<around[i][1] + pos[1], around[i][2] + pos[2]>>]
    IN  SelectSeq(moved, in_bounds)

\* Lines 112-116: the in-bounds neighbours of pos, in the order of the
\* offsets offs.
to_check(offs, pos) ==
    LET around == SelectSeq(offs, LAMBDA p : p # <<0, 0>>)
        moved  == [i \in 1 .. Len(around) |->
                      <<around[i][1] + pos[1], around[i][2] + pos[2]>>]
    IN  SelectSeq(moved, in_bounds)

\* The recursion of reveal_board is modelled by its call stack.  A
\* configuration is
\*   board: the BoardState,
\*   stack: the activations of reveal_board that are inside the loop of
\*          lines 118-120, innermost first, each with its pos, the rest of
\*          its iterator to_check and its local res,
\*   res:   once the stack is empty, the bool the outermost call returned,
\*   log:   the tiles inserted into revealed so far, in the order of
\*          insertion (a record of the run, not a value of the program).

\* A call returns v to its caller: line 119, res |= reveal_board(..), or,
\* for the outermost call, the result of the run.
reveal_return(cfg, v) ==
    IF cfg.stack = <<>>
    THEN [cfg EXCEPT !.res = v]
    ELSE [cfg EXCEPT !.stack[1].res = @ \/ v]

\* reveal_enter testing flags for the clicked tile only, not for the tiles
\* the cascade reaches.
reveal_enter_flag_test_at_click(offs, cfg, pos) ==
    IF pos \notin cfg.board.revealed
            /\ (cfg.stack = <<>> => pos \notin cfg.board.flags)
    THEN LET c1 == [cfg EXCEPT !.board.revealed = @ \cup {pos},
                               !.log = Append(@, pos)]
         IN  IF pos \in c1.board.mines
             THEN reveal_return(c1, TRUE)
             ELSE IF is_zero_tile(c1.board, pos)
             THEN [c1 EXCEPT !.stack =
                      <<[pos |-> pos, to_check |-> to_check(offs, pos),
                         res |-> FALSE]>> \o @]
             ELSE reveal_return(c1, FALSE)
    ELSE reveal_return(cfg, FALSE)

\* reveal_enter testing for a mine before it tests whether the tile is
\* newly revealed.
reveal_enter_mine_test_first(offs, cfg, pos) ==
    IF pos \notin cfg.board.flags /\ pos \in cfg.board.mines
    THEN reveal_return([cfg EXCEPT !.board.revealed = @ \cup {pos},
                                   !.log = Append(@, pos)], TRUE)
    ELSE IF newly_revealed(cfg.board, pos)
    THEN LET c1 == [cfg EXCEPT !.board.revealed = @ \cup {pos},
                               !.log = Append(@, pos)]
         IN  IF is_zero_tile(c1.board, pos)
             THEN [c1 EXCEPT !.stack =
                      <<[pos |-> pos, to_check |-> to_check(offs, pos),
                         res |-> FALSE]>> \o @]
             ELSE reveal_return(c1, FALSE)
    ELSE reveal_return(cfg, FALSE)

\* A call reveal_board(board, pos) up to the start of its loop, or to its
\* return when it does not loop: lines 103-116 and 124.
reveal_enter(offs, cfg, pos) ==
    IF newly_revealed(cfg.board, pos)
    THEN LET c1 == [cfg EXCEPT !.board.revealed = @ \cup {pos},
                               !.log = Append(@, pos)]
         IN  IF pos \in c1.board.mines
             THEN reveal_return(c1, TRUE)
             ELSE IF is_zero_tile(c1.board, pos)
             THEN [c1 EXCEPT !.stack =
                      <<[pos |-> pos, to_check |-> to_check(offs, pos),
                         res |-> FALSE]>> \o @]
             ELSE reveal_return(c1, FALSE)
    ELSE reveal_return(cfg, FALSE)

\* reveal_step with a loop that ends (break, not continue) at a neighbour
\* that is already revealed.
reveal_step_break_on_revealed(offs, cfg) ==
    LET top == Head(cfg.stack)
    IN  IF top.to_check # <<>>
        THEN IF Head(top.to_check) \in cfg.board.revealed
             THEN reveal_return([cfg EXCEPT !.stack = Tail(@)], top.res)
             ELSE reveal_enter(offs,
                               [cfg EXCEPT !.stack[1].to_check = Tail(@)],
                               Head(top.to_check))
        ELSE reveal_return([cfg EXCEPT !.stack = Tail(@)], top.res)

\* One step of the innermost activation: the next iteration of its loop
\* (lines 118-119), or, when the iterator is exhausted, its `return res`.
reveal_step(offs, cfg) ==
    LET top == Head(cfg.stack)
    IN  IF top.to_check # <<>>
        THEN reveal_enter(offs,
                          [cfg EXCEPT !.stack[1].to_check = Tail(@)],
                          Head(top.to_check))
        ELSE reveal_return([cfg EXCEPT !.stack = Tail(@)], top.res)

\* Up to 2^k steps, stopping when the outermost call has returned.
RECURSIVE reveal_steps(_, _, _)
reveal_steps(offs, cfg, k) ==
    IF cfg.stack = <<>> THEN cfg
    ELSE IF k = 0 THEN reveal_step(offs, cfg)
    ELSE reveal_steps(offs, reveal_steps(offs, cfg, k - 1), k - 1)

\* The steps repeated until the outermost call has returned.
RECURSIVE reveal_run(_, _, _)
reveal_run(offs, cfg, k) ==
    LET c == reveal_steps(offs, cfg, k)
    IN  IF c.stack = <<>> THEN c ELSE reveal_run(offs, c, k + 1)

\* reveal_board with the neighbour offsets offs: the board after the call,
\* the returned bool, and the log of the call.
reveal_board_in(offs, board, pos) ==
    LET start == [board |-> board, stack |-> <<>>, res |-> FALSE,
                  log |-> <<>>]
        c == reveal_run(offs, reveal_enter(offs, start, pos), 0)
    IN  [board |-> c.board, res |-> c.res, log |-> c.log]

reveal_board(board, pos) == reveal_board_in(Offsets, board, pos)

\* ----------------------------------------------------- pos_to_tile_coords
\* ((pos - (-0.5 * dim as f32 * TILE_SIZE)) / TILE_SIZE) as i32, for a
\* position that is a whole number: the quotient is computed on the doubled
\* values, which is exact, and rounded towards zero.
tile_index(p, dim) == TruncDiv(2 * p + dim * TILE_SIZE, 2 * TILE_SIZE)

pos_to_tile_coords(pos) ==
    LET coords == <<tile_index(pos[1], BOARD_DIM[1]),
                    tile_index(pos[2], BOARD_DIM[2])>>
    IN  IF in_bounds(coords) THEN Some(coords) ELSE None

\* -------------------------------------------------------- detect_presses
\* toggle_flag that only inserts.
toggle_flag_insert_only(fl, pos) == fl \cup {pos}

\* Lines 249-251: if !board.flags.insert(pos) { board.flags.remove(&pos); }
toggle_flag(fl, pos) ==
    IF pos \notin fl THEN fl \cup {pos} ELSE fl \ {pos}

\* may_flag without the test of revealed.
may_flag_any_tile(board, pos) == TRUE

\* Line 247: the guard of the right-click branch.
may_flag(board, pos) == pos \notin board.revealed

\* set_game_over that leaves the state as it is.
set_game_over_keeps_state(st) == [state |-> st, pc |-> "running"]

\* Line 242: state.set(GameState::GameOver).unwrap().  State::set fails when
\* the state is already the one asked for, and unwrap then panics.
set_game_over(st) ==
    IF st = "GameOver"
    THEN [state |-> st, pc |-> "panicked"]
    ELSE [state |-> "GameOver", pc |-> "running"]

\* after_reveal setting GameOver whatever reveal_board returned.
after_reveal_ignoring_result(st, res) == set_game_over(st)

\* Line 241: if reveal_board(&mut board, pos) { state.set(..).unwrap(); }
after_reveal(st, res) ==
    IF res THEN set_game_over(st) ELSE [state |-> st, pc |-> "running"]

\* Lines 238-255: detect_presses on the board `board` in game state st, for
\* the result hit of pos_to_tile_coords and the two mouse buttons just
\* pressed or not: the board, the game state and the pc after the call.
on_tile(board, st, hit, left, right) ==
    LET pos == hit[1]
        same == [board |-> board, state |-> st, pc |-> "running"]
    IN  IF hit = None THEN same
        ELSE IF left /\ pos \notin board.revealed
        THEN LET r == reveal_board(board, pos)
                 a == after_reveal(st, r.res)
             IN  [board |-> r.board, state |-> a.state, pc |-> a.pc]
        ELSE IF right /\ may_flag(board, pos)
        THEN [same EXCEPT !.board.flags = toggle_flag(@, pos)]
        ELSE same

detect_presses(board, st, cursor, left, right) ==
    on_tile(board, st, pos_to_tile_coords(cursor), left, right)

\* The cursor positions the model delivers: on each axis the centre of
\* every tile of the board and of the two tile-sized strips next to the
\* board on the low side and the one on the high side.
CursorAxis(dim) ==
    {TILE_SIZE * j + TILE_SIZE \div 2 - (dim * TILE_SIZE) \div 2 :
        j \in -2 .. dim}

CursorPositions == CursorAxis(BOARD_DIM[1]) \X CursorAxis(BOARD_DIM[2])

\* What pos_to_tile_coords makes of these positions.
CursorHits == {pos_to_tile_coords(c) : c \in CursorPositions}

\* playing_systems_run for a system set that runs in every game state.
systems_run_in_every_state == TRUE

\* SystemSet::on_update(GameState::Playing): detect_presses runs in the
\* frames in which the game state is Playing.  The transition that
\* state.set requests is made before the set is run again, so the state a
\* frame sees is the one the frame before it left.
playing_systems_run == state = "Playing"

\* ------------------------------------------------------------ the machine
\* No call of reveal_board is being run step by step.
no_call ==
    /\ call_pos = None
    /\ call_stack = <<>>
    /\ call_res = FALSE
    /\ call_before = {}
    /\ call_expansions = 0

Init ==
    /\ BOARD_DIM \in (1 .. MaxWidth) \X (1 .. MaxHeight)
    /\ MINE_NUM \in 0 .. MaxMineNum
    /\ mines = {}
    /\ mines_left = mines_quota
    /\ flags = {}
    /\ revealed = {}
    /\ nums = <<>>
    /\ state = "Playing"
    /\ pc = "generate_board"
    /\ no_call

\* One iteration of the sampling loop of generate_board.
generate_sample ==
    /\ pc = "generate_board"
    /\ mines_left > 0
    /\ \E coord \in Tiles :
          LET s == sample_mine(mines, mines_left, coord)
          IN  mines' = s[1] /\ mines_left' = s[2]
    /\ UNCHANGED <<BOARD_DIM, MINE_NUM, flags, revealed, nums, state, pc>>
    /\ UNCHANGED call_vars

\* The loop exit, the computation of nums and the construction of the
\* BoardState; setup inserts it as a resource.
generate_finish ==
    /\ pc = "generate_board"
    /\ ~(mines_left > 0)
    /\ nums' = compute_nums(mines)
    /\ flags' = {}
    /\ revealed' = {}
    /\ pc' = "running"
    /\ UNCHANGED <<BOARD_DIM, MINE_NUM, mines, mines_left, state>>
    /\ UNCHANGED call_vars

\* A frame in which detect_presses runs, with any cursor position and any
\* buttons for which the player ends with at most MaxFlags flags.
playing_frame ==
    /\ pc = "running"
    /\ playing_systems_run
    /\ \E hit \in CursorHits, left \in BOOLEAN, right \in BOOLEAN :
          LET r == on_tile(BoardState, state, hit, left, right)
          IN  /\ Cardinality(r.board.flags) <= MaxFlags
              /\ mines' = r.board.mines
              /\ flags' = r.board.flags
              /\ revealed' = r.board.revealed
              /\ nums' = r.board.nums
              /\ state' = r.state
              /\ pc' = r.pc
    /\ UNCHANGED <<BOARD_DIM, MINE_NUM, mines_left>>
    /\ UNCHANGED call_vars

\* A frame in which the systems of the Playing set do not run: whatever the
\* cursor and the buttons of that frame are, they reach no system.
idle_frame ==
    /\ pc = "running"
    /\ ~playing_systems_run
    /\ UNCHANGED vars

Next == generate_sample \/ generate_finish \/ playing_frame \/ idle_frame

Spec == Init /\ [][Next]_vars

\* ------------------------------------------- a player who removes no flag
\* The frames of a player who never clicks a flag away.
playing_frame_keeping_flags == playing_frame /\ flags \subseteq flags'

NoUnflagNext ==
    \/ generate_sample
    \/ generate_finish
    \/ playing_frame_keeping_flags
    \/ idle_frame

NoUnflagSpec == Init /\ [][NoUnflagNext]_vars

\* ------------------------------------------------ generate_board, alone
\* generate_board from its start to its return.
GenerateNext == generate_sample \/ generate_finish

GenerateSpec == Init /\ [][GenerateNext]_vars

\* The iteration of the loop that samples coord and finds it new.
sample_new(coord) == generate_sample /\ mines' = mines \cup {coord}

\* A fair random source: rng.gen_range (lines 71-72) gives every tile of
\* the board again and again, so a tile that stays free is sampled at some
\* time; and the function runs on from the end of its loop.
GenerateLive ==
    /\ GenerateSpec
    /\ \A coord \in (0 .. MaxWidth - 1) \X (0 .. MaxHeight - 1) :
          WF_vars(sample_new(coord))
    /\ WF_vars(generate_finish)

\* ------------------------------------------- reveal_board, step by step
\* A board the game can be in while it is Playing, and no call yet: the
\* mines generate_board can place, any flags (at most MaxFlags), and any
\* revealed tiles that are neither mines nor flagged.  (The player reaches
\* any such revealed set tile by tile, flagging the other tiles meanwhile.)
CascadeInit ==
    /\ BOARD_DIM \in (1 .. CascadeMaxWidth) \X (1 .. CascadeMaxHeight)
    /\ MINE_NUM \in 0 .. MaxMineNum
    /\ mines \in {ms \in SUBSET Tiles : Cardinality(ms) = mines_quota}
    /\ mines_left = 0
    /\ nums = compute_nums(mines)
    /\ flags \in {fl \in SUBSET Tiles : Cardinality(fl) <= MaxFlags}
    /\ revealed \in SUBSET (Tiles \ (mines \cup flags))
    /\ state = "Playing"
    /\ pc = "running"
    /\ no_call

\* The iterator seq with its i-th element moved to the front, the others in
\* their order.
visit_first(seq, i) ==
    <<seq[i]>> \o SubSeq(seq, 1, i - 1) \o SubSeq(seq, i + 1, Len(seq))

\* The configuration of the call in progress.
call_cfg ==
    [board |-> BoardState, stack |-> call_stack, res |-> call_res,
     log |-> <<>>]

\* The call in progress has moved to the configuration c.
call_moves_to(c) ==
    /\ revealed' = c.board.revealed
    /\ call_stack' = c.stack
    /\ call_res' = c.res
    /\ call_expansions' =
          IF Len(c.stack) > Len(call_stack)
          THEN call_expansions + 1 ELSE call_expansions
    /\ pc' = IF c.stack = <<>> THEN "returned" ELSE "reveal_board"
    /\ UNCHANGED <<BOARD_DIM, MINE_NUM, mines, mines_left, flags, nums, state>>

\* reveal_board(&mut board, pos) is called: lines 103-116 of the outermost
\* activation.
reveal_call ==
    /\ pc = "running"
    /\ call_pos = None
    /\ \E pos \in Tiles :
          /\ call_pos' = Some(pos)
          /\ call_before' = revealed
          /\ call_moves_to(reveal_enter(Offsets, call_cfg, pos))

\* One step of the innermost activation, reveal_step: the next iteration
\* of the loop of lines 118-120, or the return.
reveal_next ==
    /\ pc = "reveal_board"
    /\ call_moves_to(reveal_step(Offsets, call_cfg))
    /\ UNCHANGED <<call_pos, call_before>>

CascadeNext == reveal_call \/ reveal_next

CascadeSpec == CascadeInit /\ [][CascadeNext]_vars

\* A call that has been made runs on: the program has one thread, and
\* nothing but the call itself runs until it returns.
CascadeLive == CascadeSpec /\ WF_vars(reveal_next)

\* reveal_next with the neighbours left to visit taken in any order: the
\* loop visits any one of them next.
reveal_next_any_order ==
    /\ pc = "reveal_board"
    /\ LET rest == Head(call_stack).to_check
       IN  \E i \in 1 .. (IF rest = <<>> THEN 1 ELSE Len(rest)) :
              LET c == IF rest = <<>> THEN call_cfg
                       ELSE [call_cfg EXCEPT
                                !.stack[1].to_check = visit_first(@, i)]
              IN  call_moves_to(reveal_step(Offsets, c))
    /\ UNCHANGED <<call_pos, call_before>>

AnyOrderNext == reveal_call \/ reveal_next_any_order

AnyOrderSpec == CascadeInit /\ [][AnyOrderNext]_vars

\* ------------------------------------------------------------- the claims
\* The tiles a call has inserted after its k-th insertion.
Inserted(log, k) == {log[i] : i \in 1 .. k}

\* The in-bounds neighbours of a tile, as a set.
Neighbours(pos) ==
    LET n == to_check(Offsets, pos) IN {n[i] : i \in 1 .. Len(n)}

\* The Moore neighbourhood of a tile: the tiles of the board, other than the
\* tile, at most one column and one row away.
MooreNeighbours(pos) ==
    {t \in Tiles : /\ t # pos
                   /\ t[1] - pos[1] \in -1 .. 1
                   /\ t[2] - pos[2] \in -1 .. 1}

\* The board with another revealed set.
WithRevealed(rev) == [BoardState EXCEPT !.revealed = rev]

\* What detect_presses returns when it changes nothing.
Untouched == [board |-> BoardState, state |-> state, pc |-> "running"]

\* C1: flags and revealed are disjoint in every reachable state and after
\* every insertion a call of reveal_board makes, the cascade included; a
\* right click on a revealed tile changes nothing.
C1_FlagsRevealedDisjoint ==
    /\ flags \cap revealed = {}
    /\ pc = "running" =>
          /\ \A pos \in Tiles :
                LET r == reveal_board(BoardState, pos)
                IN  /\ r.board.flags = flags
                    /\ r.board.revealed = revealed \cup Inserted(r.log, Len(r.log))
                    /\ \A k \in 0 .. Len(r.log) :
                          flags \cap (revealed \cup Inserted(r.log, k)) = {}
          /\ \A hit \in CursorHits, left \in BOOLEAN :
                (hit # None /\ hit[1] \in revealed)
                    => on_tile(BoardState, state, hit, left, TRUE) = Untouched

\* C1's case: a cascade has run next to a flagged tile.
C1_Witness ==
    /\ pc = "running"
    /\ \E z \in revealed :
          /\ is_zero_tile(BoardState, z)
          /\ Neighbours(z) \cap flags # {}

\* C2: in Playing, a left click on an unrevealed tile ends in GameOver
\* exactly when its call of reveal_board returns true; every other input
\* of detect_presses, a flag toggle included, leaves the state Playing.
C2_GameOverIffRevealTrue ==
    (pc = "running" /\ state = "Playing") =>
        \A hit \in CursorHits, left \in BOOLEAN, right \in BOOLEAN :
            LET r == on_tile(BoardState, state, hit, left, right)
                reveals == hit # None /\ left /\ hit[1] \notin revealed
            IN  /\ r.pc = "running"
                /\ reveals =>
                      (r.state = "GameOver"
                          <=> reveal_board(BoardState, hit[1]).res)
                /\ reveals =>
                      (r.state = "Playing"
                          <=> ~reveal_board(BoardState, hit[1]).res)
                /\ ~reveals => r.state = "Playing"

\* C2's case: a reveal returned false (a tile that is no mine is revealed),
\* a flag was toggled, and a later reveal returned true.
C2_Witness ==
    /\ state = "GameOver"
    /\ revealed \ mines # {}
    /\ flags # {}

\* C3: the unwrap of state.set(GameOver) never fails, and from a state with
\* game state GameOver every step keeps the game state GameOver and keeps
\* mines, flags, revealed and nums.
C3_GameOverTerminal ==
    /\ [](pc # "panicked")
    /\ [][state = "GameOver" =>
            /\ state' = "GameOver"
            /\ UNCHANGED <<mines, flags, revealed, nums>>]_vars

\* C3's case: the game is over while tiles are left that a click would
\* reveal or flag.
C3_Witness ==
    /\ state = "GameOver"
    /\ pc = "running"
    /\ Tiles \ (revealed \cup flags) # {}
    /\ flags = {}

\* C4 as claimed: once the game is over, reveal_board leaves revealed
\* unchanged whatever tile it is called on.
C4_CoreNoOpAfterGameOver ==
    state = "GameOver" =>
        \A pos \in Tiles :
            reveal_board(BoardState, pos).board.revealed = revealed

\* C5: reveal_board returns true exactly when the target is a mine that was
\* neither flagged nor revealed; a call on a tile that is no mine reveals
\* no mine.
C5_TrueIffFreshMine ==
    pc = "running" =>
        \A pos \in Tiles :
            LET r == reveal_board(BoardState, pos)
            IN  /\ r.res <=> (pos \in mines /\ pos \notin flags
                                /\ pos \notin revealed)
                /\ pos \notin mines =>
                      (r.board.revealed \ revealed) \cap mines = {}

\* C5's case: on a board with mines a cascade has run from a zero tile and
\* the game goes on.
C5_Witness ==
    /\ pc = "running"
    /\ state = "Playing"
    /\ mines # {}
    /\ \E z \in revealed : is_zero_tile(BoardState, z)

\* C6: every step keeps the revealed tiles revealed and leaves them
\* unflagged.
C6_RevealedOnlyGrows ==
    [][revealed \subseteq revealed' /\ revealed \cap flags' = {}]_vars

\* C6's case: the game goes on with revealed tiles and a flag.
C6_Witness ==
    /\ state = "Playing"
    /\ Cardinality(revealed) >= 2
    /\ flags # {}

\* C7: reveal_board on a flagged tile changes nothing and returns false, on
\* the board as it is and on the board after any number of insertions of a
\* cascade; no call changes flags, mines or nums or reveals a flagged tile;
\* a left click on a flagged tile leaves the game state Playing.
C7_FlaggedTileBlocksReveal ==
    pc = "running" =>
        /\ \A pos \in Tiles :
              LET r == reveal_board(BoardState, pos)
              IN  /\ r.board.flags = flags
                  /\ r.board.mines = mines
                  /\ r.board.nums = nums
                  /\ r.board.revealed \cap flags = {}
                  /\ \A k \in 0 .. Len(r.log), f \in flags :
                        LET b == WithRevealed(revealed \cup Inserted(r.log, k))
                        IN  reveal_board(b, f)
                                = [board |-> b, res |-> FALSE, log |-> <<>>]
        /\ state = "Playing" =>
              \A hit \in CursorHits, right \in BOOLEAN :
                  (hit # None /\ hit[1] \in flags)
                      => on_tile(BoardState, state, hit, TRUE, right) = Untouched

\* C7's case: a flagged tile that is no mine, next to an unrevealed zero
\* tile whose cascade will reach it.
C7_Witness ==
    /\ pc = "running"
    /\ state = "Playing"
    /\ \E f \in flags \ mines, z \in Tiles \ revealed :
          /\ is_zero_tile(BoardState, z)
          /\ f \in Neighbours(z)

\* C8: a second call of reveal_board on the same tile leaves revealed as
\* the first call left it and returns false.
C8_RevealIdempotent ==
    pc = "running" =>
        \A pos \in Tiles :
            LET r1 == reveal_board(BoardState, pos)
                r2 == reveal_board(r1.board, pos)
            IN  /\ r2.board.revealed = r1.board.revealed
                /\ r2.res = FALSE

\* C8's case: an unrevealed, unflagged mine and an unrevealed zero tile are
\* there to be revealed twice.
C8_Witness ==
    /\ pc = "running"
    /\ state = "Playing"
    /\ revealed # {}
    /\ mines \ flags # {}
    /\ \E z \in Tiles \ (revealed \cup flags) : is_zero_tile(BoardState, z)

\* C9: two right clicks in a row on the same tile restore flags; one right
\* click on an unrevealed tile changes the membership of that tile in flags
\* and of no other, and leaves revealed, mines, nums and the game state.
C9_FlagToggleInvolution ==
    (pc = "running" /\ state = "Playing") =>
        \A hit \in CursorHits :
            LET r1 == on_tile(BoardState, state, hit, FALSE, TRUE)
                r2 == on_tile(r1.board, r1.state, hit, FALSE, TRUE)
            IN  /\ r2.board.flags = flags
                /\ r2 = Untouched
                /\ (hit # None /\ hit[1] \notin revealed) =>
                      /\ hit[1] \in r1.board.flags <=> hit[1] \notin flags
                      /\ r1.board.flags \ {hit[1]} = flags \ {hit[1]}
                      /\ r1 = [Untouched EXCEPT !.board.flags = r1.board.flags]

\* C9's case: a flag has been set and there are revealed and unrevealed
\* tiles.
C9_Witness ==
    /\ state = "Playing"
    /\ flags # {}
    /\ revealed # {}
    /\ Tiles \ (revealed \cup flags) # {}

\* C10: the board generate_board returns has min(MINE_NUM, width * height)
\* mines, all of them tiles of the board, and no flagged and no revealed
\* tile; when MINE_NUM is at least width * height every tile is a mine.
C10_GeneratedBoard ==
    [][(pc = "generate_board" /\ pc' = "running") =>
          LET area == BOARD_DIM[1] * BOARD_DIM[2]
          IN  /\ mines' \subseteq Tiles
              /\ Cardinality(mines') = IF MINE_NUM <= area THEN MINE_NUM ELSE area
              /\ flags' = {}
              /\ revealed' = {}
              /\ MINE_NUM >= area => mines' = Tiles]_vars

\* C10's case: a board generated with more mines requested than it has
\* tiles.
C10_Witness ==
    /\ pc = "running"
    /\ MINE_NUM > BOARD_DIM[1] * BOARD_DIM[2]
    /\ mines = Tiles
    /\ flags = {}
    /\ revealed = {}

\* C11: on the generated board and after every reveal and flag action, nums
\* is defined on exactly the tiles that are no mines, and gives each of them
\* the number of mines among its in-bounds neighbours, at most 8; no frame
\* changes mines or nums.
C11_NumsAreNeighbourCounts ==
    /\ [](pc = "running" =>
            /\ DOMAIN nums = Tiles \ mines
            /\ \A c \in Tiles \ mines :
                  /\ nums[c] = Cardinality(MooreNeighbours(c) \cap mines)
                  /\ nums[c] \in 0 .. 8)
    /\ [][pc = "running" => UNCHANGED <<mines, nums>>]_vars

\* C11's case: reveals and a flag toggle have acted on a board where a tile
\* counts two mines, one of them on a diagonal.
C11_Witness ==
    /\ pc = "running"
    /\ revealed # {}
    /\ flags # {}
    /\ \E c \in Tiles \ mines, m \in mines :
          /\ nums[c] = 2
          /\ m[1] # c[1] /\ m[2] # c[2]
          /\ m \in MooreNeighbours(c)

\* Whether a position lies in the rectangle of the board,
\* [-W*T/2, W*T/2) x [-H*T/2, H*T/2).
InsideBoard(c) ==
    /\ 2 * c[1] >= -(BOARD_DIM[1] * TILE_SIZE)
    /\ 2 * c[1] < BOARD_DIM[1] * TILE_SIZE
    /\ 2 * c[2] >= -(BOARD_DIM[2] * TILE_SIZE)
    /\ 2 * c[2] < BOARD_DIM[2] * TILE_SIZE

\* C12 as claimed: pos_to_tile_coords gives None for every position outside
\* the rectangle of the board, those less than one tile left of or below it
\* included, and detect_presses then changes nothing; for a position inside
\* it gives the tile (floor((x + W*T/2) / T), floor((y + H*T/2) / T)).
C12_NoneOutsideBoard ==
    pc = "running" =>
        \A c \in CursorPositions :
            IF InsideBoard(c)
            THEN pos_to_tile_coords(c) =
                     Some(<<(2 * c[1] + BOARD_DIM[1] * TILE_SIZE)
                                \div (2 * TILE_SIZE),
                            (2 * c[2] + BOARD_DIM[2] * TILE_SIZE)
                                \div (2 * TILE_SIZE)>>)
            ELSE /\ pos_to_tile_coords(c) = None
                 /\ \A left \in BOOLEAN, right \in BOOLEAN :
                       detect_presses(BoardState, state, c, left, right)
                           = Untouched

\* C13: whatever the order in which the loop of each zero tile visits its
\* neighbours, a call of reveal_board ends with the revealed set and the
\* return value that the call has with the order of the code.
C13_CascadeConfluence ==
    pc = "returned" =>
        LET r == reveal_board(WithRevealed(call_before), call_pos[1])
        IN  /\ revealed = r.board.revealed
            /\ call_res = r.res

\* C13's case: a call has returned whose cascade expanded three zero tiles
\* on a board with a flagged tile and a tile revealed before the call.
C13_Witness ==
    /\ pc = "returned"
    /\ call_expansions >= 3
    /\ flags # {}
    /\ call_before # {}

\* The smallest set that includes S and, for each zero tile in it that is
\* not in closed, all the in-bounds neighbours of that tile.
RECURSIVE FloodFillFrom(_, _)
FloodFillFrom(S, closed) ==
    LET zeros == {t \in S \ closed : is_zero_tile(BoardState, t)}
        grown == S \cup UNION {MooreNeighbours(z) : z \in zeros}
    IN  IF grown = S THEN S ELSE FloodFillFrom(grown, closed)

\* A call of reveal_board on a tile that was an unrevealed zero tile of a
\* board with no flags has returned.
ZeroCallReturned ==
    /\ pc = "returned"
    /\ flags = {}
    /\ call_pos[1] \notin call_before
    /\ is_zero_tile(BoardState, call_pos[1])

\* C14 as claimed: on a board with no flags, a call of reveal_board on an
\* unrevealed zero tile leaves revealed as it was plus the flood-fill region
\* of the tile: the smallest set that contains the tile and, for each zero
\* tile in it, all the in-bounds neighbours of that tile.
C14_FloodFillRegion ==
    ZeroCallReturned =>
        revealed = call_before \cup FloodFillFrom({call_pos[1]}, {})

\* C14, amended: on a board with no flags, a call of reveal_board on an
\* unrevealed zero tile returns false and leaves revealed as it was plus
\* the smallest set that contains the tile and, for each zero tile in it
\* that was not revealed before the call, all the in-bounds neighbours of
\* that tile, diagonals included; tiles with a nonzero count are revealed
\* and not expanded.
C14_FloodFillThroughUnrevealed ==
    ZeroCallReturned =>
        /\ revealed = call_before
                          \cup FloodFillFrom({call_pos[1]}, call_before)
        /\ call_res = FALSE
        /\ call_expansions =
              Cardinality({t \in revealed \ call_before :
                              is_zero_tile(BoardState, t)})

\* C14's case: a call on a zero tile has expanded two zero tiles and has
\* revealed a tile with a nonzero count, on a board where a tile had been
\* revealed before, and a tile that is no mine stays unrevealed.
C14_Witness ==
    /\ ZeroCallReturned
    /\ call_expansions >= 2
    /\ \E b \in revealed \ call_before : ~is_zero_tile(BoardState, b)
    /\ call_before # {}
    /\ Tiles \ (revealed \cup mines) # {}

\* C15: a call of reveal_board on an unrevealed, unflagged tile that is no
\* mine and has a nonzero count inserts that tile and no other, enters no
\* loop over neighbours and returns false; the left click that makes the
\* call leaves the game Playing.
C15_NonzeroTileRevealsOne ==
    pc = "running" =>
        \A pos \in Tiles \ (revealed \cup flags \cup mines) :
            nums[pos] # 0 =>
                LET r == reveal_board(BoardState, pos)
                    e == reveal_enter(Offsets,
                                      [board |-> BoardState, stack |-> <<>>,
                                       res |-> FALSE, log |-> <<>>], pos)
                IN  /\ r.board = WithRevealed(revealed \cup {pos})
                    /\ r.res = FALSE
                    /\ r.log = <<pos>>
                    /\ e.stack = <<>>
                    /\ state = "Playing" =>
                          on_tile(BoardState, state, Some(pos), TRUE, FALSE)
                              = [Untouched EXCEPT
                                    !.board.revealed = revealed \cup {pos}]

\* C15's case: on the 3x3 board with the one mine in the centre, the corner
\* (0,0) has been revealed and nothing else.
C15_Witness ==
    /\ pc = "running"
    /\ state = "Playing"
    /\ BOARD_DIM = <<3, 3>>
    /\ mines = {<<1, 1>>}
    /\ revealed = {<<0, 0>>}
    /\ flags = {}

\* C16: every call of reveal_board returns.  An activation enters its loop
\* only for a tile whose insertion into revealed is new, so no tile is
\* expanded twice: the number of expansions is the number of zero tiles the
\* call has revealed, and neither it nor the depth of the recursion exceeds
\* width * height.
C16_RevealTerminates ==
    /\ [](call_pos # None =>
            /\ call_expansions
                  = Cardinality({t \in revealed \ call_before :
                                    is_zero_tile(BoardState, t)})
            /\ call_expansions <= BOARD_DIM[1] * BOARD_DIM[2]
            /\ Len(call_stack) <= call_expansions
            /\ \A i, j \in 1 .. Len(call_stack) :
                  call_stack[i].pos = call_stack[j].pos => i = j)
    /\ [][call_expansions' # call_expansions =>
            /\ call_expansions' = call_expansions + 1
            /\ Head(call_stack').pos \in revealed' \ revealed]_vars
    /\ (call_pos # None) ~> (pc = "returned")

\* C16's case: a call has returned that expanded every tile of a board of
\* six tiles.
C16_Witness ==
    /\ pc = "returned"
    /\ call_expansions = BOARD_DIM[1] * BOARD_DIM[2]
    /\ call_expansions >= 6

\* min(MINE_NUM, width * height), the clamped quota.
ClampedQuota ==
    IF MINE_NUM <= BOARD_DIM[1] * BOARD_DIM[2]
    THEN MINE_NUM ELSE BOARD_DIM[1] * BOARD_DIM[2]

\* C17: with a fair random source generate_board leaves its sampling loop,
\* whatever the quota, a quota of width * height included.  mines_left is
\* never below 0, and inside the loop it is the clamped quota less the
\* number of mines; it changes only by a step that inserts one new mine and
\* takes it down by one; the loop is left only with mines_left = 0, that
\* is, with as many mines as the clamped quota.
C17_GenerationTerminates ==
    /\ [](/\ mines_left >= 0
          /\ mines_left + Cardinality(mines) = ClampedQuota)
    /\ [][/\ (mines_left' # mines_left \/ mines' # mines) =>
                /\ pc = "generate_board"
                /\ mines_left' = mines_left - 1
                /\ \E coord \in Tiles \ mines : mines' = mines \cup {coord}
          /\ (pc = "generate_board" /\ pc' # pc) =>
                /\ mines_left = 0
                /\ Cardinality(mines') = ClampedQuota]_vars
    /\ <>(pc = "running")

\* C17's case: generate_board has returned a board all of whose tiles are
\* mines, for a quota of exactly width * height.
C17_Witness ==
    /\ pc = "running"
    /\ MINE_NUM = BOARD_DIM[1] * BOARD_DIM[2]
    /\ mines = Tiles
    /\ mines_left = 0

\* C18: in every reachable state at most one mine is revealed, and the game
\* state is GameOver exactly when a mine is revealed.
C18_OneRevealedMineIffGameOver ==
    /\ Cardinality(revealed \cap mines) <= 1
    /\ state = "GameOver" <=> revealed \cap mines # {}

\* C18's case: on a board with two mines one of them has been revealed,
\* after a reveal of another tile and with a flag set.
C18_Witness ==
    /\ state = "GameOver"
    /\ Cardinality(mines) = 2
    /\ revealed \cap mines # {}
    /\ revealed \ mines # {}
    /\ flags # {}

\* C19: as long as no flag has been removed, every in-bounds neighbour of a
\* revealed zero tile is revealed or flagged, and a flagged tile is not
\* revealed.
C19_ZeroTilesAreSurrounded ==
    pc = "running" =>
        /\ \A z \in revealed :
              is_zero_tile(BoardState, z)
                  => MooreNeighbours(z) \subseteq revealed \cup flags
        /\ flags \cap revealed = {}

\* C19's case: a cascade has stopped at a flagged tile that is no mine: a
\* revealed zero tile has a flagged, unrevealed neighbour, and another
\* reveal has followed on the other side of the flag.
C19_Witness ==
    /\ pc = "running"
    /\ state = "Playing"
    /\ \E z \in revealed, f \in flags \ mines :
          /\ is_zero_tile(BoardState, z)
          /\ f \in MooreNeighbours(z)
          /\ \E t \in revealed : t \notin MooreNeighbours(z) \cup {z}

====
